---- MODULE Spec2Model ----
(***************************************************************************)
(* Playback orchestration core of the TIDAL AI DJ (src/App.tsx) together   *)
(* with the presentation guards of src/components/DjBooth.tsx and          *)
(* src/components/Player.tsx.                                              *)
(*                                                                         *)
(* Every run-to-completion piece of a handler is one action; the awaits of *)
(* startSession and handleTrackEnd are the only suspension points.  The    *)
(* browser objects the code holds are modelled by what the platform        *)
(* standards say they do:                                                  *)
(*   - AudioBufferSourceNode: stop() ends playback and the `ended` event   *)
(*     is delivered later, for a natural end as well as for stop();        *)
(*     nothing is rendered while the AudioContext is suspended.            *)
(*   - HTMLAudioElement: play() clears `paused` unless the play request is *)
(*     refused (autoplay policy), pause() sets it.  Reaching the end       *)
(*     queues a task; the task sets `paused` if the element is still at    *)
(*     its end and not paused, and then fires `ended`.  play() on an       *)
(*     element at its end plays it again from the start.                   *)
(*   - setTimeout/clearTimeout: a pending timer fires once unless cleared. *)
(* The closures of a handler chain keep the `session` value of the render  *)
(* in which the chain was started (field `cap`).  A state update, the      *)
(* updater function passed to setQueue included, takes effect within the   *)
(* step that requests it: no other callback runs between a handler and     *)
(* the render that applies its updates.                                    *)
(***************************************************************************)
EXTENDS Integers, Sequences, FiniteSets, Bags, TLC

\* ---- bounds -------------------------------------------------------------
MaxSessions == 2
MaxTracks == 2
MaxReq == 1
MaxSkips == 3
MaxStale == 1
MaxRaw == 2

\* ---- values -------------------------------------------------------------
IDLE == "IDLE"
LOADING_SESSION == "LOADING_SESSION"
PLAYING_COMMENTARY == "PLAYING_COMMENTARY"
PLAYING_TRACK == "PLAYING_TRACK"
PAUSED == "PAUSED"

PlaybackState == {IDLE, LOADING_SESSION, PLAYING_COMMENTARY, PLAYING_TRACK, PAUSED}

\* the i-th track of the playlist answered to the k-th startSession call
Track(k, i) == (k - 1) * MaxTracks + i

Playlist(k, n) == [i \in 1..n |-> Track(k, i)]

NoSession == [mood |-> 0, tracks |-> <<>>]

NoText == <<>>

IntroScript(k) == <<"intro", k>>

InterludeText(prev, next, mood) == <<"interlude", prev, next, mood>>

FallbackText(next) == <<"next up", next>>

\* an HTMLAudioElement with the closure of its callbacks and its timeout:
\* atEnd: the playback position is the end; task: the task that fires
\* `ended` is queued; timer: the setTimeout is pending; ends: how often its
\* callbacks have invoked handleTrackEnd
NoAudio ==
  [id |-> 0, track |-> 0, rest |-> <<>>, cap |-> 0, paused |-> TRUE,
   started |-> FALSE, atEnd |-> FALSE, task |-> FALSE, ends |-> 0,
   timer |-> FALSE]

\* an AudioBufferSourceNode with the closure of its onended callback
NoVoice == [st |-> "none", cap |-> 0, text |-> <<>>]

VARIABLES
  session,          \* useState<DJSession | null>
  playbackState,    \* useState<PlaybackState>
  currentTrack,     \* useState<Track | null>, 0 is null
  queue,            \* useState<Track[]>
  djText,           \* useState<string | null>
  isLoading,        \* useState(false)
  audioContext,     \* audioContextRef: "none" | "running" | "suspended"
  voiceSourceRef,   \* the source node the ref holds, NoVoice is null
  musicAudioRef,    \* the audio element the ref holds, NoAudio is null
  trackTimerRef,    \* id of the audio whose timer was set last, 0 is null
  staleVoices,      \* superseded source nodes whose `ended` is still to come
  orphans,          \* unreferenced audio elements still playing or timed
  nAudio,           \* audio elements constructed so far
  calls,            \* startSession invocations and where each is suspended
  reqs,             \* handleTrackEnd invocations suspended in generation
  ev,               \* what the last step did
  skipRun,          \* consecutive Skip commands: how many, from which queue
  sessionEnded,     \* handleTrackEnd has ended the session and no startSession
                    \* was invoked since
  rawTracks,        \* generatePlaylist: json.tracks || []
  enrichedTracks,   \* generatePlaylist: the tracks pushed so far
  spotifyData,      \* generatePlaylist: what each lookup so far returned
  returned          \* generatePlaylist: whether it has returned

appVars == <<session, playbackState, currentTrack, queue, djText, isLoading,
             audioContext, voiceSourceRef, musicAudioRef, trackTimerRef,
             staleVoices, orphans, nAudio, calls, reqs, ev, skipRun,
             sessionEnded>>

playlistVars == <<rawTracks, enrichedTracks, spotifyData, returned>>

vars == <<appVars, playlistVars>>

\* op, arg: the event and its subject; ted, adv, com, gen, clr: how often the
\* step invoked handleTrackEnd, playNextTrack, playCommentary, started an
\* interlude request, cancelled a pending timer; alert: the alert() it raised;
\* text: the script of the voice source or request concerned; aud: the audio
\* element whose callback ran, as the callback left it; rnd: the value of
\* shouldPlayCommentary in the handleTrackEnd it invoked
NoEv == [op |-> "init", arg |-> 0, ted |-> 0, adv |-> 0, com |-> 0,
         gen |-> 0, clr |-> 0, alert |-> "none", text |-> <<>>,
         aud |-> NoAudio, rnd |-> FALSE]

NoRun == [n |-> 0, len |-> 0, from |-> IDLE]

\* the state a handler works on
Cur ==
  [session |-> session, playbackState |-> playbackState,
   currentTrack |-> currentTrack, queue |-> queue, djText |-> djText,
   isLoading |-> isLoading, audioContext |-> audioContext,
   voiceSourceRef |-> voiceSourceRef, musicAudioRef |-> musicAudioRef,
   trackTimerRef |-> trackTimerRef, staleVoices |-> staleVoices,
   orphans |-> orphans, nAudio |-> nAudio, calls |-> calls, reqs |-> reqs,
   ev |-> NoEv]

On(op, arg) == [Cur EXCEPT !.ev = [NoEv EXCEPT !.op = op, !.arg = arg]]

\* unreferenced elements that can still act
Live(os) == {o \in os : ~o.paused \/ o.timer \/ o.task}

\* objects that can no longer act are forgotten: an unreferenced element
\* that is paused and has neither timer nor `ended` task pending, the closure
\* of a source that has ended.  A step that would leave more than MaxStale
\* superseded objects with an event to come waits for one to be delivered.
Commit(s) ==
  /\ BagCardinality(s.staleVoices) + Cardinality(Live(s.orphans)) <= MaxStale
  /\ session' = s.session
  /\ playbackState' = s.playbackState
  /\ currentTrack' = s.currentTrack
  /\ queue' = s.queue
  /\ djText' = s.djText
  /\ isLoading' = s.isLoading
  /\ audioContext' = s.audioContext
  /\ voiceSourceRef' = IF s.voiceSourceRef.st = "ended"
                       THEN [NoVoice EXCEPT !.st = "ended"]
                       ELSE s.voiceSourceRef
  /\ musicAudioRef' = s.musicAudioRef
  /\ trackTimerRef' = s.trackTimerRef
  /\ staleVoices' = s.staleVoices
  /\ orphans' = Live(s.orphans)
  /\ nAudio' = s.nAudio
  /\ calls' = s.calls
  /\ reqs' = s.reqs
  /\ ev' = s.ev
  /\ sessionEnded' = IF s.ev.alert = "ended" THEN TRUE
                     ELSE IF s.ev.op = "startSession" THEN FALSE
                     ELSE sessionEnded
  /\ UNCHANGED playlistVars

\* ---- helpers ------------------------------------------------------------

\* fresh: the state a newly constructed AudioContext reports
getAudioContext(s, fresh) ==
  IF s.audioContext = "none" THEN [s EXCEPT !.audioContext = fresh] ELSE s

\* every audio element that can still act
Audios(s) == (IF s.musicAudioRef.id # 0 THEN {s.musicAudioRef} ELSE {}) \cup s.orphans

\* the element `old` becomes `new`, wherever it is held
putAudio(s, old, new) ==
  IF s.musicAudioRef = old
  THEN [s EXCEPT !.musicAudioRef = new]
  ELSE [s EXCEPT !.orphans = (s.orphans \ {old}) \cup {new}]

\* voiceSourceRef.current.stop(): the ref keeps the stopped node
stopVoice(s) ==
  IF s.voiceSourceRef.st = "playing"
  THEN [s EXCEPT !.voiceSourceRef.st = "stopped"]
  ELSE s

\* stopMusic as it would be if the ref were dropped without pause()
stopMusic_NoPause(s) ==
  IF s.musicAudioRef.id # 0
  THEN [s EXCEPT !.orphans = s.orphans \cup {s.musicAudioRef},
                 !.musicAudioRef = NoAudio]
  ELSE s

\* musicAudioRef.current.pause(); musicAudioRef.current = null
stopMusic(s) ==
  IF s.musicAudioRef.id # 0
  THEN [s EXCEPT !.orphans = s.orphans \cup
                              {[s.musicAudioRef EXCEPT !.paused = TRUE]},
                 !.musicAudioRef = NoAudio]
  ELSE s

\* clearTimeout(trackTimerRef.current)
clearTimer(s) ==
  LET hit == {a \in Audios(s) : a.id = s.trackTimerRef /\ a.timer}
  IN IF s.trackTimerRef # 0 /\ hit # {}
     THEN LET a == CHOOSE x \in hit : TRUE
          IN [putAudio(s, a, [a EXCEPT !.timer = FALSE]) EXCEPT
                !.ev.clr = s.ev.clr + 1]
     ELSE s

\* stopAllAudio as it would be if only the voice source were stopped
stopAllAudio_VoiceOnly(s) == stopVoice(s)

stopAllAudio(s) == clearTimer(stopMusic(stopVoice(s)))

\* the node the ref held is superseded; its `ended` may still be pending
supersedeVoice(s, source) ==
  [s EXCEPT !.staleVoices =
               IF s.voiceSourceRef.st \in {"playing", "stopped"}
               THEN s.staleVoices (+) SetToBag({s.voiceSourceRef})
               ELSE s.staleVoices,
            !.voiceSourceRef = source]

\* playCommentary as it would be without its teardown
playCommentary_NoTeardown(s, text, cap, fresh) ==
  LET s1 == getAudioContext(s, fresh)
      source == [st |-> "playing", cap |-> cap, text |-> text]
  IN [supersedeVoice(s1, source) EXCEPT
        !.playbackState = PLAYING_COMMENTARY,
        !.djText = text,
        !.ev.com = s1.ev.com + 1]

playCommentary(s, text, cap, fresh) ==
  LET s1 == getAudioContext(stopAllAudio(s), fresh)
      source == [st |-> "playing", cap |-> cap, text |-> text]
  IN [supersedeVoice(s1, source) EXCEPT
        !.playbackState = PLAYING_COMMENTARY,
        !.djText = text,
        !.ev.com = s1.ev.com + 1]

\* the element the ref held is superseded without having been stopped
supersedeMusic(s, audio) ==
  [s EXCEPT !.orphans = IF s.musicAudioRef.id # 0
                        THEN s.orphans \cup {s.musicAudioRef}
                        ELSE s.orphans,
            !.musicAudioRef = audio]

\* playNextTrack as it would be if it took the last track of the queue
playNextTrack_PopBack(s, cap, allowed) ==
  LET s1 == [stopAllAudio(s) EXCEPT !.djText = NoText, !.ev.adv = s.ev.adv + 1]
  IN IF Len(s1.queue) = 0
     THEN [s1 EXCEPT !.queue = <<>>]
     ELSE LET next == s1.queue[Len(s1.queue)]
              rest == SubSeq(s1.queue, 1, Len(s1.queue) - 1)
              id == s1.nAudio + 1
              audio == [id |-> id, track |-> next, rest |-> rest, cap |-> cap,
                        paused |-> ~allowed, started |-> allowed,
                        atEnd |-> FALSE, task |-> FALSE, ends |-> 0,
                        timer |-> TRUE]
          IN [supersedeMusic(s1, audio) EXCEPT
                !.currentTrack = next,
                !.playbackState = PLAYING_TRACK,
                !.nAudio = id,
                !.trackTimerRef = id,
                !.queue = rest]

\* playNextTrack as it would be if the updater returned prevQueue
playNextTrack_KeepQueue(s, cap, allowed) ==
  LET s1 == [stopAllAudio(s) EXCEPT !.djText = NoText, !.ev.adv = s.ev.adv + 1]
  IN IF Len(s1.queue) = 0
     THEN [s1 EXCEPT !.queue = <<>>]
     ELSE LET next == Head(s1.queue)
              rest == Tail(s1.queue)
              id == s1.nAudio + 1
              audio == [id |-> id, track |-> next, rest |-> rest, cap |-> cap,
                        paused |-> ~allowed, started |-> allowed,
                        atEnd |-> FALSE, task |-> FALSE, ends |-> 0,
                        timer |-> TRUE]
          IN [supersedeMusic(s1, audio) EXCEPT
                !.currentTrack = next,
                !.playbackState = PLAYING_TRACK,
                !.nAudio = id,
                !.trackTimerRef = id]

\* allowed: whether the platform accepts audio.play()
playNextTrack(s, cap, allowed) ==
  LET s1 == [stopAllAudio(s) EXCEPT !.djText = NoText, !.ev.adv = s.ev.adv + 1]
  IN IF Len(s1.queue) = 0
     THEN [s1 EXCEPT !.queue = <<>>]
     ELSE LET next == Head(s1.queue)
              rest == Tail(s1.queue)
              id == s1.nAudio + 1
              audio == [id |-> id, track |-> next, rest |-> rest, cap |-> cap,
                        paused |-> ~allowed, started |-> allowed,
                        atEnd |-> FALSE, task |-> FALSE, ends |-> 0,
                        timer |-> TRUE]
          IN [supersedeMusic(s1, audio) EXCEPT
                !.currentTrack = next,
                !.playbackState = PLAYING_TRACK,
                !.nAudio = id,
                !.trackTimerRef = id,
                !.queue = rest]

\* a: the audio whose closure (next, rest, session) the callback holds;
\* commentary: the outcome of Math.random() > 0.4
handleTrackEnd(s, a, commentary, allowed) ==
  LET finishedTrack == a.track
      remainingQueue == a.rest
      cap == a.cap
      counted == [a EXCEPT !.ends = a.ends + 1]
      s1 == [putAudio(s, a, counted) EXCEPT !.ev.ted = s.ev.ted + 1,
                                            !.ev.aud = counted,
                                            !.ev.rnd = commentary]
  IN IF Len(remainingQueue) > 0
     THEN IF commentary /\ cap # 0
          THEN [s1 EXCEPT !.reqs = s1.reqs (+) SetToBag(
                             {[pc |-> "script", finished |-> finishedTrack,
                               next |-> Head(remainingQueue), cap |-> cap,
                               text |-> NoText]}),
                          !.ev.gen = s1.ev.gen + 1]
          ELSE playNextTrack(s1, cap, allowed)
     ELSE [s1 EXCEPT !.playbackState = IDLE, !.ev.alert = "ended"]

\* ---- presentation guards ------------------------------------------------
BoothShown ==
  \/ playbackState = IDLE
  \/ playbackState = LOADING_SESSION /\ currentTrack = 0

PlayerShown ==
  /\ ~BoothShown
  /\ currentTrack # 0 \/ playbackState = PLAYING_COMMENTARY

\* ---- actions ------------------------------------------------------------
Init ==
  /\ session = NoSession
  /\ playbackState = IDLE
  /\ currentTrack = 0
  /\ queue = <<>>
  /\ djText = NoText
  /\ isLoading = FALSE
  /\ audioContext = "none"
  /\ voiceSourceRef = NoVoice
  /\ musicAudioRef = NoAudio
  /\ trackTimerRef = 0
  /\ staleVoices = EmptyBag
  /\ orphans = {}
  /\ nAudio = 0
  /\ calls = <<>>
  /\ reqs = EmptyBag
  /\ ev = NoEv
  /\ skipRun = NoRun
  /\ sessionEnded = FALSE
  /\ rawTracks = <<>>
  /\ enrichedTracks = <<>>
  /\ spotifyData = <<>>
  /\ returned = FALSE

\* StartSession as it would be if the playlist were requested without a
\* resume of a suspended context
StartSession_NoResume ==
  /\ BoothShown
  /\ ~isLoading
  /\ Len(calls) < MaxSessions
  /\ \E fresh \in {"running", "suspended"} :
       LET k == Len(calls) + 1
           s1 == getAudioContext(On("startSession", k), fresh)
           call == [pc |-> "playlist", cap |-> session.mood, n |-> 0]
       IN Commit([s1 EXCEPT !.calls = Append(s1.calls, call),
                            !.isLoading = TRUE])
  /\ skipRun' = NoRun

\* the user submits a prompt in DjBooth: startSession up to its first await
StartSession ==
  /\ BoothShown
  /\ ~isLoading
  /\ Len(calls) < MaxSessions
  /\ \E fresh \in {"running", "suspended"} :
       LET k == Len(calls) + 1
           s1 == getAudioContext(On("startSession", k), fresh)
           call == [pc |-> IF s1.audioContext = "suspended"
                           THEN "resume" ELSE "playlist",
                    cap |-> session.mood, n |-> 0]
       IN Commit([s1 EXCEPT !.calls = Append(s1.calls, call),
                            !.isLoading = IF s1.audioContext = "suspended"
                                          THEN s1.isLoading ELSE TRUE])
  /\ skipRun' = NoRun

\* ctx.resume() settles; startSession goes on to its second await
ResumeSettled ==
  /\ \E k \in 1..Len(calls), resolved \in BOOLEAN :
       /\ calls[k].pc = "resume"
       /\ LET s == On("resumeSettled", k)
          IN Commit([s EXCEPT !.audioContext = IF resolved THEN "running"
                                               ELSE s.audioContext,
                              !.isLoading = TRUE,
                              !.calls[k].pc = "playlist"])
  /\ skipRun' = NoRun

\* startSessionFailed as it would be without the finally block
startSessionFailed_KeepsLoading(s, k) ==
  [s EXCEPT !.ev.alert = "error",
            !.playbackState = IDLE,
            !.calls[k] = [pc |-> "done", cap |-> 0, n |-> s.calls[k].n]]

\* startSessionFailed as it would be if the catch block only logged
startSessionFailed_Silent(s, k) ==
  [s EXCEPT !.isLoading = FALSE,
            !.calls[k] = [pc |-> "done", cap |-> 0, n |-> s.calls[k].n]]

\* the catch and finally blocks of startSession
startSessionFailed(s, k) ==
  [s EXCEPT !.ev.alert = "error",
            !.playbackState = IDLE,
            !.isLoading = FALSE,
            !.calls[k] = [pc |-> "done", cap |-> 0, n |-> s.calls[k].n]]

\* generatePlaylist settles: n tracks and an intro script, or an error
PlaylistSettled ==
  /\ \E k \in 1..Len(calls) :
       /\ calls[k].pc = "playlist"
       /\ \/ \E n \in 0..MaxTracks :
               LET s == On("playlistResolved", k)
               IN Commit([s EXCEPT !.session = [mood |-> k,
                                                tracks |-> Playlist(k, n)],
                                   !.queue = Playlist(k, n),
                                   !.calls[k].n = n,
                                   !.calls[k].pc = "speech"])
          \/ Commit(startSessionFailed(On("playlistRejected", k), k))
  /\ skipRun' = NoRun

\* generateSpeechAudio(introScript) settles
IntroSpeechSettled ==
  /\ \E k \in 1..Len(calls) :
       /\ calls[k].pc = "speech"
       /\ \/ LET s == playCommentary(On("introResolved", k), IntroScript(k),
                                     calls[k].cap, "running")
             IN Commit([s EXCEPT !.isLoading = FALSE,
                                 !.calls[k] = [pc |-> "done", cap |-> 0,
                                               n |-> calls[k].n]])
          \/ Commit(startSessionFailed(On("introRejected", k), k))
  /\ skipRun' = NoRun

\* source.onended of the node the ref holds
VoiceEnded ==
  /\ audioContext = "running"
  /\ voiceSourceRef.st \in {"playing", "stopped"}
  /\ \E allowed \in BOOLEAN :
       LET op == IF voiceSourceRef.st = "playing" THEN "voiceCompleted"
                 ELSE "voiceStopped"
           s == [On(op, 0) EXCEPT !.voiceSourceRef.st = "ended",
                                  !.ev.text = voiceSourceRef.text]
       IN Commit(playNextTrack(s, voiceSourceRef.cap, allowed))
  /\ skipRun' = NoRun

\* source.onended of a superseded node
StaleVoiceEnded ==
  /\ audioContext = "running"
  /\ \E v \in BagToSet(staleVoices), allowed \in BOOLEAN :
       LET op == IF v.st = "playing" THEN "voiceCompleted" ELSE "voiceStopped"
           s == [On(op, 1) EXCEPT !.staleVoices = staleVoices (-) SetToBag({v}),
                                  !.ev.text = v.text]
       IN Commit(playNextTrack(s, v.cap, allowed))
  /\ skipRun' = NoRun

\* a playing music element reaches the end of its resource
AudioReachesEnd ==
  /\ \E a \in Audios(Cur) :
       /\ ~a.paused
       /\ ~a.atEnd
       /\ Commit(putAudio(On("reachedEnd", a.id), a,
                          [a EXCEPT !.atEnd = TRUE, !.task = TRUE]))
  /\ skipRun' = NoRun

\* audio.onended: the queued task pauses the element if it is still at its
\* end and fires `ended`
AudioEnded ==
  /\ \E a \in Audios(Cur), commentary \in BOOLEAN, allowed \in BOOLEAN :
       /\ a.task
       /\ commentary => BagCardinality(reqs) < MaxReq
       /\ LET e == [a EXCEPT !.task = FALSE,
                             !.paused = IF a.atEnd THEN TRUE ELSE a.paused]
          IN Commit(handleTrackEnd(putAudio(On("audioEnded", a.id), a, e),
                                   e, commentary, allowed))
  /\ skipRun' = NoRun

\* the callback of the 30 s setTimeout armed in playNextTrack
timerCallback(s, a, commentary, allowed) ==
  LET t == [a EXCEPT !.timer = FALSE]
      p == [t EXCEPT !.paused = TRUE]
  IN IF ~a.paused
     THEN handleTrackEnd(putAudio(s, a, p), p, commentary, allowed)
     ELSE [putAudio(s, a, t) EXCEPT !.ev.aud = t]

TimerFired ==
  /\ \E a \in Audios(Cur), commentary \in BOOLEAN, allowed \in BOOLEAN :
       /\ a.timer
       /\ commentary => BagCardinality(reqs) < MaxReq
       /\ Commit(timerCallback(On("timerFired", a.id), a, commentary, allowed))
  /\ skipRun' = NoRun

\* generateInterludeScript settles: it catches its own failure and answers
\* the fallback sentence
ScriptSettled ==
  /\ \E r \in BagToSet(reqs), ok \in BOOLEAN :
       /\ r.pc = "script"
       /\ LET s == On(IF ok THEN "scriptResolved" ELSE "scriptFellBack", r.next)
              text == IF ok THEN InterludeText(r.finished, r.next, r.cap)
                      ELSE FallbackText(r.next)
              r2 == [r EXCEPT !.text = text, !.pc = "speech"]
          IN Commit([getAudioContext(s, "running") EXCEPT
                       !.reqs = (reqs (-) SetToBag({r})) (+) SetToBag({r2})])
  /\ skipRun' = NoRun

\* the catch block of handleTrackEnd as it would be without its fallback
commentaryFailed_NoFallback(s, cap, allowed) == s

\* the catch block of handleTrackEnd
commentaryFailed(s, cap, allowed) == playNextTrack(s, cap, allowed)

\* generateSpeechAudio(script) of handleTrackEnd settles
SpeechSettled ==
  /\ \E r \in BagToSet(reqs), ok \in BOOLEAN, allowed \in BOOLEAN :
       /\ r.pc = "speech"
       /\ LET s == [On(IF ok THEN "speechResolved" ELSE "speechRejected", r.next)
                      EXCEPT !.reqs = reqs (-) SetToBag({r}),
                             !.ev.text = r.text]
          IN Commit(IF ok
                    THEN playCommentary(s, r.text, r.cap, "running")
                    ELSE commentaryFailed(s, r.cap, allowed))
  /\ skipRun' = NoRun

\* handleSkip as it would be if it went through the track-end decision
handleSkip_ViaTrackEnd(s, cap, allowed) ==
  LET s1 == stopAllAudio(s)
  IN IF Len(s1.queue) > 0 /\ cap # 0
     THEN [s1 EXCEPT !.reqs = s1.reqs (+) SetToBag(
                        {[pc |-> "script", finished |-> s1.currentTrack,
                          next |-> Head(s1.queue), cap |-> cap,
                          text |-> NoText]}),
                     !.ev.gen = s1.ev.gen + 1]
     ELSE playNextTrack(s1, cap, allowed)

handleSkip(s, cap, allowed) == playNextTrack(stopAllAudio(s), cap, allowed)

\* the Skip button of Player; play() inside a click is not refused
Skip ==
  /\ PlayerShown
  /\ skipRun.n < MaxSkips
  /\ Commit(handleSkip(On("skip", 0), session.mood, TRUE))
  /\ skipRun' = IF skipRun.n = 0
                THEN [n |-> 1, len |-> Len(queue), from |-> playbackState]
                ELSE [skipRun EXCEPT !.n = skipRun.n + 1]

\* handleTogglePlay as it would be if it paused in every phase but PAUSED
handleTogglePlay_AnyPhase(s, cap, allowed) ==
  LET s0 == getAudioContext(s, "running")
  IN IF s0.playbackState # PAUSED
     THEN LET s1 == [s0 EXCEPT !.playbackState = PAUSED]
              s2 == IF s1.musicAudioRef.id # 0
                    THEN [s1 EXCEPT !.musicAudioRef.paused = TRUE]
                    ELSE s1
              s3 == clearTimer(s2)
          IN IF s3.audioContext = "running"
             THEN [s3 EXCEPT !.audioContext = "suspended"]
             ELSE s3
     ELSE LET s1 == [s0 EXCEPT !.playbackState = PLAYING_TRACK]
              s2 == IF s1.audioContext = "suspended"
                    THEN [s1 EXCEPT !.audioContext = "running"]
                    ELSE s1
          IN IF s2.musicAudioRef.id # 0
             THEN [s2 EXCEPT !.musicAudioRef.paused = FALSE,
                             !.musicAudioRef.started = TRUE,
                             !.musicAudioRef.atEnd = FALSE]
             ELSE playNextTrack(s2, cap, allowed)

handleTogglePlay(s, cap, allowed) ==
  LET s0 == getAudioContext(s, "running")
  IN IF s0.playbackState = PLAYING_TRACK
     THEN LET s1 == [s0 EXCEPT !.playbackState = PAUSED]
              s2 == IF s1.musicAudioRef.id # 0
                    THEN [s1 EXCEPT !.musicAudioRef.paused = TRUE]
                    ELSE s1
              s3 == clearTimer(s2)
          IN IF s3.audioContext = "running"
             THEN [s3 EXCEPT !.audioContext = "suspended"]
             ELSE s3
     ELSE IF s0.playbackState = PAUSED
     THEN LET s1 == [s0 EXCEPT !.playbackState = PLAYING_TRACK]
              s2 == IF s1.audioContext = "suspended"
                    THEN [s1 EXCEPT !.audioContext = "running"]
                    ELSE s1
          IN IF s2.musicAudioRef.id # 0
             THEN [s2 EXCEPT !.musicAudioRef.paused = FALSE,
                             !.musicAudioRef.started = TRUE,
                             !.musicAudioRef.atEnd = FALSE]
             ELSE playNextTrack(s2, cap, allowed)
     ELSE s0

\* the play/pause button of Player; play() inside a click is not refused
TogglePlay ==
  /\ PlayerShown
  /\ Commit(handleTogglePlay(On("togglePlay", 0), session.mood, TRUE))
  /\ skipRun' = NoRun

Next ==
  \/ StartSession
  \/ ResumeSettled
  \/ PlaylistSettled
  \/ IntroSpeechSettled
  \/ VoiceEnded
  \/ StaleVoiceEnded
  \/ AudioReachesEnd
  \/ AudioEnded
  \/ TimerFired
  \/ ScriptSettled
  \/ SpeechSettled
  \/ Skip
  \/ TogglePlay

Spec == Init /\ [][Next]_vars

\* ---- generatePlaylist ---------------------------------------------------
\* a missing or null string
null == "null"

\* a track object of the content provider's answer; any field may be missing
RawTrack == [title : {null, "t"}, moodTag : {null, "m"}, reason : {"r1", "r2"}]

\* an item of the search answer
Item == [name : {"s1", "s2"}, preview_url : {null, "p"}]

\* what the search request comes to: the token request or the fetch throws,
\* the response is not ok, or the response carries a list of items
Response ==
  {[kind |-> "throws", items |-> <<>>], [kind |-> "notOk", items |-> <<>>]}
    \cup {[kind |-> "ok", items |-> it] :
            it \in UNION {[1..n -> Item] : n \in 0..2}}

\* the null that searchSpotifyTrack returns
NoData == [title |-> null, album |-> null, previewUrl |-> null, duration |-> 0]

\* items.find(item => item.preview_url) || items[0]
searchSpotifyTrack(response) ==
  IF response.kind # "ok" THEN NoData
  ELSE IF Len(response.items) = 0 THEN NoData
  ELSE LET items == response.items
           hit == {j \in 1..Len(items) : items[j].preview_url # null}
           selectedTrack == IF hit # {}
                            THEN items[CHOOSE j \in hit : \A h \in hit : j <= h]
                            ELSE items[1]
       IN [title |-> selectedTrack.name,
           album |-> IF selectedTrack.name = "s1" THEN "a1" ELSE "a2",
           previewUrl |-> selectedTrack.preview_url,
           duration |-> 30000]

\* the loop body as it would be if a track whose lookup missed were left out
pushTrack_DropMiss(tracks, t, i, data) ==
  IF data # NoData
  THEN Append(tracks, [id |-> i, title |-> data.title, album |-> data.album,
                       duration |-> data.duration,
                       moodTag |-> IF t.moodTag # null THEN t.moodTag
                                   ELSE "Vibe",
                       reason |-> t.reason, previewUrl |-> data.previewUrl])
  ELSE tracks

\* the body of the enrichment loop for raw track t at index i (from 0)
pushTrack(tracks, t, i, data) ==
  IF data # NoData
  THEN Append(tracks, [id |-> i, title |-> data.title, album |-> data.album,
                       duration |-> data.duration,
                       moodTag |-> IF t.moodTag # null THEN t.moodTag
                                   ELSE "Vibe",
                       reason |-> t.reason, previewUrl |-> data.previewUrl])
  ELSE Append(tracks, [id |-> i,
                       title |-> IF t.title # null THEN t.title
                                 ELSE "Unknown Title",
                       album |-> "Unknown Album",
                       duration |-> 30000,
                       moodTag |-> IF t.moodTag # null THEN t.moodTag
                                   ELSE "Vibe",
                       reason |-> t.reason, previewUrl |-> null])

\* generatePlaylist after the content provider has answered rawTracks
InitPlaylist ==
  /\ session = NoSession
  /\ playbackState = IDLE
  /\ currentTrack = 0
  /\ queue = <<>>
  /\ djText = NoText
  /\ isLoading = FALSE
  /\ audioContext = "none"
  /\ voiceSourceRef = NoVoice
  /\ musicAudioRef = NoAudio
  /\ trackTimerRef = 0
  /\ staleVoices = EmptyBag
  /\ orphans = {}
  /\ nAudio = 0
  /\ calls = <<>>
  /\ reqs = EmptyBag
  /\ ev = NoEv
  /\ skipRun = NoRun
  /\ sessionEnded = FALSE
  /\ rawTracks \in UNION {[1..n -> RawTrack] : n \in 0..MaxRaw}
  /\ enrichedTracks = <<>>
  /\ spotifyData = <<>>
  /\ returned = FALSE

\* one turn of the loop: the awaited searchSpotifyTrack settles and the
\* track is pushed
LookupSettled ==
  /\ ~returned
  /\ Len(spotifyData) < Len(rawTracks)
  /\ \E response \in Response :
       LET i == Len(spotifyData)
           data == searchSpotifyTrack(response)
       IN /\ spotifyData' = Append(spotifyData, data)
          /\ enrichedTracks' = pushTrack(enrichedTracks, rawTracks[i + 1], i,
                                         data)
  /\ UNCHANGED <<appVars, rawTracks, returned>>

\* the loop is over: generatePlaylist returns enrichedTracks
PlaylistReturned ==
  /\ ~returned
  /\ Len(spotifyData) >= Len(rawTracks)
  /\ returned' = TRUE
  /\ UNCHANGED <<appVars, rawTracks, enrichedTracks, spotifyData>>

NextPlaylist ==
  \/ LookupSettled
  \/ PlaylistReturned

SpecPlaylist == InitPlaylist /\ [][NextPlaylist]_vars

\* ---- properties ---------------------------------------------------------
Min(a, b) == IF a < b THEN a ELSE b

IsSuffix(q, t) ==
  /\ Len(q) <= Len(t)
  /\ \A i \in 1..Len(q) : q[i] = t[Len(t) - Len(q) + i]

\* source nodes and audio elements that are playing
PlayingVoices ==
  (IF voiceSourceRef.st = "playing" THEN 1 ELSE 0)
    + BagCardinality([v \in {x \in BagToSet(staleVoices) : x.st = "playing"}
                        |-> staleVoices[v]])

PlayingMusic == {a \in Audios(Cur) : ~a.paused}

PendingTimers == {a \in Audios(Cur) : a.timer}

\* C1: at most one voice handle and at most one music handle plays, and a
\* handle that playCommentary or playNextTrack has superseded is stopped and
\* its ceiling timer cancelled: no unreferenced element plays or is timed,
\* no superseded source node plays.
C1_OneHandlePerChannel ==
  /\ PlayingVoices <= 1
  /\ Cardinality(PlayingMusic) <= 1
  /\ Cardinality(PendingTimers) <= 1
  /\ \A o \in orphans : o.paused /\ ~o.timer
  /\ \A v \in BagToSet(staleVoices) : v.st = "stopped"

\* a Skip has replaced a playing track, cancelling its timer, while the source
\* node of an earlier commentary is still to report its end
C1_Witness ==
  /\ ev.op = "skip"
  /\ skipRun.from = PLAYING_TRACK
  /\ ev.clr > 0
  /\ nAudio >= 2
  /\ ~musicAudioRef.paused
  /\ staleVoices # EmptyBag

\* C2: a ceiling timer that would act when it fires (its element is not
\* paused) is the timer of the element the ref holds, and that element plays
\* the current track; the timer of a superseded track is cancelled or finds
\* its element paused.
C2_NoStaleCeilingTimer ==
  \A a \in PendingTimers :
    ~a.paused => a = musicAudioRef /\ a.track = currentTrack /\ a.id = nAudio

\* track B has just become current and the step cancelled the pending timer
\* of the track before it
C2_Witness ==
  /\ ev.adv > 0
  /\ ev.clr > 0
  /\ nAudio >= 2
  /\ musicAudioRef.id = nAudio
  /\ musicAudioRef.timer
  /\ currentTrack = musicAudioRef.track

\* C3: handleTrackEnd is invoked at most once for each track instance: no
\* callback of an element, natural end or ceiling timer, invokes it for an
\* element for which it was invoked before.
C3_TrackEndAtMostOnce ==
  /\ ev.aud.ends <= 1
  /\ \A a \in Audios(Cur) : a.ends <= 1

\* C4: after N consecutive Skip commands issued from PLAYING_TRACK with a
\* queue of length L the queue has shrunk by min(N, L) and the phase is
\* PLAYING_TRACK with music playing if N <= L, IDLE otherwise.
C4_SkipStorm ==
  skipRun.n > 0 /\ skipRun.from = PLAYING_TRACK =>
    /\ Len(queue) = skipRun.len - Min(skipRun.n, skipRun.len)
    /\ IF skipRun.n <= skipRun.len
       THEN playbackState = PLAYING_TRACK /\ ~musicAudioRef.paused
       ELSE playbackState = IDLE

\* C5: Session.tracks is the list the playlist request of that session
\* answered and the queue is a suffix of it.
C5_QueueIsSuffix ==
  /\ IsSuffix(queue, session.tracks)
  /\ session.mood # 0 =>
       session.tracks = Playlist(session.mood, calls[session.mood].n)

\* a track of a two-track session has been popped and one is left
C5_Witness ==
  /\ session.mood # 0
  /\ Len(session.tracks) = 2
  /\ Len(queue) = 1
  /\ currentTrack = session.tracks[1]

\* C6: when startSession succeeds with a playlist of n >= 1 tracks and intro
\* script s, the phase is PLAYING_COMMENTARY, the commentary text is s and the
\* queue is the playlist; when the intro voice buffer then completes, the
\* phase is PLAYING_TRACK, the current track is the first of the playlist,
\* the queue is the rest of it and the commentary text is cleared.
C6_HappyPath ==
  \A k \in 1..Len(calls) :
    calls[k].n >= 1 =>
      /\ ev.op = "introResolved" /\ ev.arg = k =>
           /\ playbackState = PLAYING_COMMENTARY
           /\ djText = IntroScript(k)
           /\ queue = Playlist(k, calls[k].n)
      /\ ev.op = "voiceCompleted" /\ ev.text = IntroScript(k) =>
           /\ playbackState = PLAYING_TRACK
           /\ currentTrack = Track(k, 1)
           /\ queue = Tail(Playlist(k, calls[k].n))
           /\ djText = NoText

\* C7: when a track ends, by natural completion or by the ceiling timer, with
\* an empty remaining queue, the phase becomes IDLE, the step raises the
\* end-of-session notice, it is the only handleTrackEnd of that track, and
\* no voice or music handle is playing afterwards.
C7_FinalTrackEnd ==
  ev.op \in {"audioEnded", "timerFired"} /\ ev.ted > 0 /\ ev.aud.rest = <<>> =>
    /\ playbackState = IDLE
    /\ ev.alert = "ended"
    /\ ev.ted = 1
    /\ ev.aud.ends = 1
    /\ PlayingVoices = 0
    /\ PlayingMusic = {}

C9_RefusedPlayEndsTrack ==
  ev.op = "timerFired" /\ ~ev.aud.started => ev.ted = 1

\* C10: a track that is playing in phase PLAYING_TRACK has its ceiling timer
\* pending, also after it was paused and resumed.
C10_PlayingTrackIsTimed ==
  playbackState = PLAYING_TRACK /\ musicAudioRef.id # 0 /\ ~musicAudioRef.paused
    => musicAudioRef.timer

\* C11: togglePlay invoked in phase PLAYING_COMMENTARY, LOADING_SESSION or
\* IDLE changes nothing: phase, current track, queue, commentary text, the
\* voice and music handles, the pending timer and the state of the audio
\* context are as before.
C11_ToggleIsNoOp ==
  [][ev'.op = "togglePlay"
       /\ playbackState \in {PLAYING_COMMENTARY, LOADING_SESSION, IDLE} =>
          UNCHANGED <<playbackState, currentTrack, queue, djText,
                      voiceSourceRef, musicAudioRef, trackTimerRef,
                      staleVoices, orphans, audioContext, nAudio>>
    ]_vars

\* togglePlay has been pressed while a commentary plays
C11_Witness ==
  /\ ev.op = "togglePlay"
  /\ playbackState = PLAYING_COMMENTARY
  /\ voiceSourceRef.st = "playing"
  /\ audioContext = "running"

\* C12: togglePlay invoked in phase PAUSED sets the phase to PLAYING_TRACK and
\* resumes the music handle that was paused: current track and queue are
\* unchanged, no music handle is created and no track is popped.
C12_ResumeSameHandle ==
  [][ev'.op = "togglePlay" /\ playbackState = PAUSED =>
       /\ playbackState' = PLAYING_TRACK
       /\ currentTrack' = currentTrack
       /\ queue' = queue
       /\ nAudio' = nAudio
       /\ musicAudioRef.id # 0
       /\ musicAudioRef'.id = musicAudioRef.id
       /\ ~musicAudioRef'.paused
    ]_vars

\* C13: togglePlay invoked in phase PLAYING_TRACK sets the phase to PAUSED,
\* pauses the music handle and leaves no ceiling timer pending; and while the
\* phase is PAUSED no completion or timer event invokes handleTrackEnd, and
\* none changes the queue.
C13_PausedTrackDoesNotEnd ==
  [][/\ ev'.op = "togglePlay" /\ playbackState = PLAYING_TRACK =>
          /\ playbackState' = PAUSED
          /\ musicAudioRef'.paused
          /\ \A a \in Audios(Cur)' : ~a.timer
          /\ queue' = queue
     /\ playbackState = PAUSED /\ ev'.op \in {"audioEnded", "timerFired"} =>
          /\ ev'.ted = 0
          /\ queue' = queue
    ]_vars

\* C14: a Skip stops every playing handle and cancels the pending timer, then
\* invokes playNextTrack once and never handleTrackEnd: it issues no
\* generation request, starts no commentary, and the phase after it is
\* PLAYING_COMMENTARY only if it was so before; what plays or is timed after
\* it is the element playNextTrack has just made.
C14_SkipNeverDecides ==
  ev.op = "skip" =>
    /\ ev.adv = 1
    /\ ev.ted = 0
    /\ ev.gen = 0
    /\ ev.com = 0
    /\ PlayingVoices = 0
    /\ \A a \in PlayingMusic \cup PendingTimers :
         a = musicAudioRef /\ a.id = nAudio /\ a.track = currentTrack
    /\ playbackState = PLAYING_COMMENTARY => skipRun.from = PLAYING_COMMENTARY

\* a Skip during a commentary of a started session has stopped the voice and
\* started the next track
C14_Witness ==
  /\ ev.op = "skip"
  /\ skipRun.n = 1
  /\ skipRun.from = PLAYING_COMMENTARY
  /\ session.mood # 0
  /\ voiceSourceRef.st = "stopped"
  /\ playbackState = PLAYING_TRACK
  /\ ~musicAudioRef.paused
  /\ queue # <<>>

\* C15: when the result of an interlude request (script or speech) arrives
\* after the session has moved on from the track the request was made for
\* (another track is current, or the phase is IDLE), it is discarded: the
\* step starts no commentary, advances no track and changes neither phase,
\* commentary text, queue, current track nor the music handle.
C15_StaleResultDiscarded ==
  [][\A r \in BagToSet(reqs) :
       /\ ev'.op \in {"scriptResolved", "scriptFellBack",
                      "speechResolved", "speechRejected"}
       /\ ev'.arg = r.next
       /\ currentTrack # r.finished \/ playbackState = IDLE
       => /\ ev'.com = 0
          /\ ev'.adv = 0
          /\ UNCHANGED <<playbackState, djText, queue, currentTrack,
                         musicAudioRef>>
    ]_vars

\* content-generation requests in flight: the playlist or intro-speech
\* request of a startSession call, the script or speech request of a
\* handleTrackEnd call
Outstanding ==
  Cardinality({k \in 1..Len(calls) : calls[k].pc \in {"playlist", "speech"}})
    + BagCardinality(reqs)

\* C16: at most one content-generation request (playlist, interlude script or
\* speech synthesis) is outstanding.
C16_OneRequestOutstanding == Outstanding <= 1

\* C17: a startSession call that exits, by success, by failure of the playlist
\* request or by failure of the intro speech synthesis, leaves isLoading
\* false and is no longer waiting for anything.
C17_ExitClearsLoading ==
  ev.op \in {"introResolved", "introRejected", "playlistRejected"} =>
    /\ ~isLoading
    /\ calls[ev.arg].pc = "done"

\* the intro speech of a call has failed after its playlist had arrived
C17_Witness ==
  /\ ev.op = "introRejected"
  /\ calls[ev.arg].n > 0
  /\ ev.alert = "error"
  /\ ~isLoading

\* C18: isLoading is true from the invocation of a startSession call to its
\* exit, also while the resume of the audio context is awaited and after an
\* overlapping call has exited.
C18_LoadingWhileStarting ==
  (\E k \in 1..Len(calls) : calls[k].pc # "done") => isLoading

\* C19: when the playlist request or the intro speech synthesis of a
\* startSession call fails, the step surfaces an error, the phase is IDLE
\* after it, it starts no commentary and no track, and no voice handle carries
\* the intro of that call.
C19_FailureAborts ==
  ev.op \in {"playlistRejected", "introRejected"} =>
    /\ ev.alert = "error"
    /\ playbackState = IDLE
    /\ ev.com = 0
    /\ ev.adv = 0
    /\ voiceSourceRef.text # IntroScript(ev.arg)
    /\ \A v \in BagToSet(staleVoices) : v.text # IntroScript(ev.arg)

\* the intro speech of a call has failed while the commentary of an
\* overlapping call was playing
C19_Witness ==
  /\ ev.op = "introRejected"
  /\ ev.alert = "error"
  /\ playbackState = IDLE
  /\ voiceSourceRef.st = "playing"
  /\ queue # <<>>

\* C20: playNextTrack invoked with an empty queue changes nothing: phase,
\* current track, queue, commentary text, the music handle and the pending
\* timer are as before, and so is the voice handle (where the step is the
\* call of playNextTrack alone).
C20_EmptyAdvanceIsNoOp ==
  [][/\ ev'.adv > 0
     /\ queue = <<>>
     /\ ev'.op \in {"speechRejected", "voiceCompleted", "voiceStopped"}
     => /\ UNCHANGED <<playbackState, currentTrack, queue, djText,
                       musicAudioRef>>
        /\ PendingTimers' = PendingTimers
        /\ ev'.op = "speechRejected" => UNCHANGED voiceSourceRef
    ]_vars

\* C21: when a track of a started session ends with a non-empty remaining
\* queue and the random choice selects commentary, handleTrackEnd requests an
\* interlude script for the finished track, the head of the remaining queue
\* and the mood of the session, and does not advance; when the choice does
\* not select commentary it invokes playNextTrack and requests nothing.  A
\* script that arrives goes on to speech synthesis, a speech buffer that
\* arrives is played as commentary.
C21_TrackEndBranch ==
  /\ ev.op \in {"audioEnded", "timerFired"} /\ ev.ted = 1
       /\ ev.aud.rest # <<>> /\ session.mood # 0 =>
         IF ev.rnd
         THEN /\ ev.gen = 1
              /\ ev.adv = 0
              /\ \E r \in BagToSet(reqs) :
                   /\ r.pc = "script"
                   /\ r.finished = ev.aud.track
                   /\ r.next = Head(ev.aud.rest)
                   /\ r.cap = session.mood
         ELSE ev.gen = 0 /\ ev.adv = 1
  /\ ev.op = "scriptResolved" =>
       \E r \in BagToSet(reqs) : r.pc = "speech" /\ r.next = ev.arg
  /\ ev.op = "speechResolved" => ev.com = 1 /\ djText = ev.text

\* C22: while the playlist request or the intro-speech request of a
\* startSession call is outstanding the phase is LOADING_SESSION, and every
\* change of the phase is IDLE -> LOADING_SESSION, LOADING_SESSION ->
\* PLAYING_COMMENTARY, PLAYING_COMMENTARY -> PLAYING_TRACK, PLAYING_TRACK ->
\* PLAYING_COMMENTARY or IDLE, PLAYING_TRACK <-> PAUSED, or the re-entry to
\* IDLE of a failed startSession.
C22_PhaseDiagram ==
  [][/\ (\E k \in 1..Len(calls') : calls'[k].pc \in {"playlist", "speech"})
          => playbackState' = LOADING_SESSION
     /\ playbackState' # playbackState =>
          \/ playbackState = IDLE /\ playbackState' = LOADING_SESSION
          \/ playbackState = LOADING_SESSION
               /\ playbackState' = PLAYING_COMMENTARY
          \/ playbackState = PLAYING_COMMENTARY
               /\ playbackState' = PLAYING_TRACK
          \/ playbackState = PLAYING_TRACK
               /\ playbackState' \in {PLAYING_COMMENTARY, IDLE, PAUSED}
          \/ playbackState = PAUSED /\ playbackState' = PLAYING_TRACK
          \/ playbackState' = IDLE /\ ev'.alert = "error"
    ]_vars

\* C23: generatePlaylist returns exactly one Track per track of the content
\* provider's answer, in the same order, whatever the metadata lookups come
\* to; a track whose lookup returned null has previewUrl null and album
\* "Unknown Album".
C23_LookupMissKeepsTrack ==
  returned =>
    /\ Len(enrichedTracks) = Len(rawTracks)
    /\ \A i \in 1..Len(rawTracks) :
         /\ enrichedTracks[i].id = i - 1
         /\ enrichedTracks[i].reason = rawTracks[i].reason
         /\ spotifyData[i] = NoData =>
              /\ enrichedTracks[i].previewUrl = null
              /\ enrichedTracks[i].album = "Unknown Album"

\* a playlist of two tracks has been returned, the lookup of the first
\* having missed and the lookup of the second having found a preview
C23_Witness ==
  /\ returned
  /\ Len(rawTracks) = 2
  /\ spotifyData[1] = NoData
  /\ spotifyData[2] # NoData
  /\ enrichedTracks[2].previewUrl # null
  /\ enrichedTracks[1].album = "Unknown Album"

\* the tracks of session.tracks that come after track t, all of them if t is
\* not a track of the session
After(t) ==
  LET at == {i \in 1..Len(session.tracks) : session.tracks[i] = t}
  IN IF at = {} THEN session.tracks
     ELSE SubSeq(session.tracks, (CHOOSE i \in at : TRUE) + 1,
                 Len(session.tracks))

\* C24: the queue holds neither the current track nor a track that was played
\* in this session: it is the part of Session.tracks after the current track
\* (all of it while no track of the session has been current), and the
\* current track changes only to the head of the queue, which is removed.
C24_QueueExcludesPlayed ==
  [][/\ queue' = After(currentTrack)'
     /\ \A i \in 1..Len(queue') : queue'[i] # currentTrack'
     /\ currentTrack' # currentTrack =>
          /\ queue # <<>>
          /\ currentTrack' = Head(queue)
          /\ queue' = Tail(queue)
    ]_vars

\* the second track of a session plays after the first has ended
C24_Witness ==
  /\ ev.op \in {"audioEnded", "timerFired"}
  /\ ev.adv = 1
  /\ Len(session.tracks) = 2
  /\ currentTrack = session.tracks[2]
  /\ ev.aud.track = session.tracks[1]
  /\ queue = <<>>

\* C25: the state of an existing audio context changes only in startSession
\* (resume), in togglePlay from PLAYING_TRACK (suspend) and in togglePlay
\* from PAUSED (resume); it is suspended only while the phase is PAUSED or
\* while a startSession call awaits its resume; and it is running whenever
\* playCommentary starts a voice buffer.
C25_ContextOwnedByLifecycle ==
  [][/\ audioContext # "none" /\ audioContext' # audioContext =>
          \/ ev'.op = "resumeSettled" /\ audioContext' = "running"
          \/ ev'.op = "togglePlay" /\ playbackState = PLAYING_TRACK
               /\ audioContext' = "suspended"
          \/ ev'.op = "togglePlay" /\ playbackState = PAUSED
               /\ audioContext' = "running"
     /\ audioContext' = "suspended" =>
          \/ playbackState' = PAUSED
          \/ \E k \in 1..Len(calls') : calls'[k].pc = "resume"
     /\ ev'.com > 0 => audioContext' = "running"
    ]_vars

\* C26: startSession requests the resume of a suspended audio context within
\* the invocation, before any provider request: the playlist request of a
\* call is sent either by the invocation itself, the context being active, or
\* when the resume it requested has settled, and the speech request is sent
\* only after the playlist request.
C26_ResumeBeforeRequests ==
  [][\A k \in 1..Len(calls') :
       /\ k > Len(calls) =>
            /\ ev'.op = "startSession"
            /\ calls'[k].pc = IF audioContext' = "suspended" THEN "resume"
                               ELSE "playlist"
       /\ k <= Len(calls) /\ calls'[k].pc # calls[k].pc =>
            \/ calls[k].pc = "resume" /\ calls'[k].pc = "playlist"
                 /\ ev'.op = "resumeSettled"
            \/ calls[k].pc = "playlist" /\ calls'[k].pc \in {"speech", "done"}
            \/ calls[k].pc = "speech" /\ calls'[k].pc = "done"
    ]_vars

\* the resume requested by a call has settled and its playlist request is
\* outstanding
C26_Witness ==
  /\ ev.op = "resumeSettled"
  /\ calls[ev.arg].pc = "playlist"
  /\ audioContext = "running"
  /\ isLoading

\* C27: the completion callback of a voice handle that was stopped by
\* teardown does not invoke playNextTrack: it removes no track from the
\* queue and leaves the current track and the music handle as they are.
C27_StoppedVoiceDoesNotAdvance ==
  [][ev'.op = "voiceStopped" =>
       /\ ev'.adv = 0
       /\ UNCHANGED <<queue, currentTrack, musicAudioRef, playbackState>>
    ]_vars

\* C28: a voice handle and a music handle never play at the same time: while
\* the phase is PLAYING_COMMENTARY no music handle plays and no ceiling timer
\* is pending, and while a music handle plays no voice handle plays.
C28_VoiceAndMusicExclusive ==
  /\ playbackState = PLAYING_COMMENTARY =>
       PlayingMusic = {} /\ PendingTimers = {}
  /\ PlayingMusic # {} => PlayingVoices = 0

\* an interlude has replaced a playing track: the voice plays, the track is
\* paused and its timer cancelled
C28_Witness ==
  /\ ev.op = "speechResolved"
  /\ ev.clr > 0
  /\ playbackState = PLAYING_COMMENTARY
  /\ voiceSourceRef.st = "playing"
  /\ currentTrack # 0
  /\ musicAudioRef = NoAudio

\* C29: while the phase is PAUSED only a user command (togglePlay or Skip)
\* changes the phase: a completion event, a timer event or a generation
\* response leaves the phase and the commentary text as they are and starts
\* neither a voice buffer nor a music element.
C29_PausedUntilUserCommand ==
  [][playbackState = PAUSED /\ ev'.op \notin {"togglePlay", "skip"} =>
       /\ UNCHANGED <<playbackState, djText>>
       /\ ev'.com = 0
       /\ nAudio' = nAudio
    ]_vars

\* C30: the system is not left in phase PLAYING_COMMENTARY with no audio
\* playing: while the phase is PLAYING_COMMENTARY a voice buffer plays or a
\* completion event, a timer or a response that can move the phase on is
\* still to come.  With none to come only a user command can follow, and the
\* phase never becomes IDLE by itself.
C30_CommentaryIsNotLeftSilent ==
  playbackState = PLAYING_COMMENTARY =>
    \/ voiceSourceRef.st \in {"playing", "stopped"}
    \/ staleVoices # EmptyBag
    \/ reqs # EmptyBag
    \/ \E k \in 1..Len(calls) : calls[k].pc # "done"
    \/ \E a \in Audios(Cur) : ~a.paused \/ a.timer \/ a.task

\* C31: once handleTrackEnd has set the phase to IDLE at the end of a
\* session, and until startSession is invoked again, the phase stays IDLE and
\* no step starts a voice buffer or a music element.
C31_EndedSessionStaysIdle ==
  [][sessionEnded /\ ev'.op # "startSession" =>
       /\ playbackState' = IDLE
       /\ ev'.com = 0
       /\ nAudio' = nAudio
       /\ PlayingVoices' <= PlayingVoices
       /\ {a.id : a \in PlayingMusic'} \subseteq {a.id : a \in PlayingMusic}
    ]_vars

====
